---- MODULE Spec2Model ----
(***************************************************************************)
(* Model of package testdemo: the function IsSorted of sort.go, executed   *)
(* statement by statement by a caller that invokes it on one slice, and    *)
(* invokes it again on the same slice once it has returned.                *)
(*                                                                         *)
(* A Go slice is modelled as a record [isNil, elems]: a nil slice and an   *)
(* empty non-nil slice both have length 0.  Go indexes from 0, TLA+        *)
(* sequences from 1: At(d, k) is the Go expression d[k].                   *)
(***************************************************************************)
EXTENDS Integers, Sequences, FiniteSets

(* ---------------------------- bounds ----------------------------------- *)

\* longest slice handed to IsSorted
MaxLen == 3
\* number of successive calls the caller makes on the same slice
MaxCalls == 2
\* width of the modelled Go int (the real one is 64 bits)
IntBits == 3
\* longest slice handed to each of two concurrent calls
ConcMaxLen == 3

(* ---------------------------- integers --------------------------------- *)

RECURSIVE Pow2(_)
Pow2(k) == IF k = 0 THEN 1 ELSE 2 * Pow2(k - 1)

\* the least and the greatest value of the modelled int
MinInt == 0 - Pow2(IntBits - 1)
MaxInt == Pow2(IntBits - 1) - 1

\* two's-complement wrap-around of an arithmetic result
Wrap(x) == ((x + Pow2(IntBits - 1)) % Pow2(IntBits)) - Pow2(IntBits - 1)

\* element values the caller puts in a slice
Values == {MinInt, -1, 0, 1, MaxInt}

RECURSIVE SeqsUpTo(_)
SeqsUpTo(k) ==
    IF k = 0 THEN {<< >>}
    ELSE LET shorter == SeqsUpTo(k - 1)
         IN  shorter \cup {Append(s, v) : s \in {t \in shorter : Len(t) = k - 1}, v \in Values}

\* the slices a caller constructs: []int(nil), []int{}, []int{v1, ...}
Slices ==
    {[isNil |-> TRUE, elems |-> << >>]}
        \cup {[isNil |-> FALSE, elems |-> s] : s \in SeqsUpTo(MaxLen)}

(* ---------------------------- Go primitives ---------------------------- *)

\* len(d)
GoLen(d) == Len(d.elems)

\* d[k] is a legal index expression
InRange(d, k) == 0 <= k /\ k < GoLen(d)

\* d[k]
At(d, k) == d.elems[k + 1]

\* a comparison done by subtracting (a - b <= 0), as fixed-width arithmetic
LeqBySub(a, b) == Wrap(a - b) <= 0

\* a strict comparison
LeqStrict(a, b) == a < b

\* a comparison the wrong way round
LeqReversed(a, b) == a >= b

\* sort.go:10  data[i] <= data[i+1]
Leq(a, b) == a <= b

\* the guard without its n == 0 disjunct
ShortInputOnlyOne(len) == len = 1

\* a guard that also takes two-element input for short
ShortInputWide(len) == len <= 2

\* sort.go:6  n == 0 || n == 1
ShortInput(len) == len = 0 \/ len = 1

\* an early return that answers "is it empty"
EarlyReturnIsEmpty(len) == len = 0

\* sort.go:7  return true
EarlyReturnValue(len) == TRUE

\* a loop bound that stops one pair early
LoopBoundShort(idx, len) == idx < len - 2

\* a loop bound that runs one pair too far
LoopBoundLong(idx, len) == idx < len

\* sort.go:10  i < n-1
LoopBound(idx, len) == idx < len - 1

\* a final test that accepts any index
ReturnValueLe(idx, len) == idx <= len - 1

\* a final test that is off by one
ReturnValueOff(idx, len) == idx = len

\* a final test that accepts any index at or past the last one
ReturnValueGe(idx, len) == idx >= len - 1

\* sort.go:13  return i == n-1
ReturnValue(idx, len) == idx = len - 1

\* sort.go:10-12  the index at which the scan started at idx stops
RECURSIVE Scan(_, _, _)
Scan(d, idx, len) ==
    IF LoopBound(idx, len) /\ Leq(At(d, idx), At(d, idx + 1))
    THEN Scan(d, idx + 1, len)
    ELSE idx

\* sort.go:4-14  the value IsSorted(d) returns when it runs alone
IsSorted(d) ==
    IF ShortInput(GoLen(d))
    THEN EarlyReturnValue(GoLen(d))
    ELSE ReturnValue(Scan(d, 0, GoLen(d)), GoLen(d))

\* sort.go:9-13  the loop and the final test alone, without the guard of
\* lines 6-8
ScanOnly(d) == ReturnValue(Scan(d, 0, GoLen(d)), GoLen(d))

(* ---------------------------- state ------------------------------------ *)

\* no other call is suspended
NoFrame == [pc |-> "none"]

\* no suite is being run
NoSuite == [pc |-> "none"]

VARIABLES
    data,       \* the caller's slice, the argument of IsSorted
    pc,         \* position of the call: idle, entry, guard, loop, body, ret, done, panic
    n,          \* local n of IsSorted
    i,          \* local i of IsSorted
    result,     \* value returned by the current call, "none" until it returns
    reads,      \* Go indices of data read by the current call
    inputs,     \* the slice as it was at the start of each call
    results,    \* the value returned by each completed call
    cmps,       \* the indices k of the pairs (k, k+1) the current call compared, in order
    conc,       \* the frame of the other, suspended, concurrent call
    suite       \* the testify suite ExampleTestSuite and its runner

vars == <<data, pc, n, i, result, reads, inputs, results, cmps, conc, suite>>

Init ==
    /\ data \in Slices
    /\ pc = "idle"
    /\ n = 0
    /\ i = 0
    /\ result = "none"
    /\ reads = {}
    /\ inputs = << >>
    /\ results = << >>
    /\ cmps = << >>
    /\ conc = NoFrame
    /\ suite = NoSuite

(* ---------------------------- actions ---------------------------------- *)

\* the caller invokes IsSorted(data): a fresh frame
Enter ==
    /\ pc \in {"idle", "done"}
    /\ Len(inputs) < MaxCalls
    /\ pc' = "entry"
    /\ n' = 0
    /\ i' = 0
    /\ result' = "none"
    /\ reads' = {}
    /\ inputs' = Append(inputs, data)
    /\ cmps' = << >>
    /\ UNCHANGED <<data, results, conc, suite>>

\* sort.go:5  n := len(data)
ReadLen ==
    /\ pc = "entry"
    /\ n' = GoLen(data)
    /\ pc' = "guard"
    /\ UNCHANGED <<data, i, result, reads, inputs, results, cmps, conc, suite>>

\* sort.go:6-9  if n == 0 || n == 1 { return true } ; i := 0
Guard ==
    /\ pc = "guard"
    /\ IF ShortInput(n)
       THEN /\ result' = EarlyReturnValue(n)
            /\ results' = Append(results, EarlyReturnValue(n))
            /\ pc' = "done"
            /\ i' = i
       ELSE /\ i' = 0
            /\ pc' = "loop"
            /\ UNCHANGED <<result, results>>
    /\ UNCHANGED <<data, n, reads, inputs, cmps, conc, suite>>

\* a loop condition that swaps a descending pair in place
LoopCondSwap ==
    /\ pc = "loop"
    /\ IF LoopBound(i, n)
       THEN IF InRange(data, i) /\ InRange(data, i + 1)
            THEN /\ reads' = reads \cup {i, i + 1}
                 /\ cmps' = Append(cmps, i)
                 /\ IF Leq(At(data, i), At(data, i + 1))
                    THEN pc' = "body" /\ data' = data
                    ELSE /\ pc' = "ret"
                         /\ data' = [data EXCEPT !.elems[i + 1] = At(data, i + 1),
                                                 !.elems[i + 2] = At(data, i)]
            ELSE /\ reads' = reads \cup {i, i + 1}
                 /\ cmps' = cmps
                 /\ pc' = "panic"
                 /\ data' = data
       ELSE /\ reads' = reads
            /\ cmps' = cmps
            /\ pc' = "ret"
            /\ data' = data
    /\ UNCHANGED <<n, i, result, inputs, results, conc, suite>>

\* a loop condition that does not leave the loop at a descending pair: the
\* scan goes on to the end
LoopCondNoBreak ==
    /\ pc = "loop"
    /\ IF LoopBound(i, n)
       THEN IF InRange(data, i) /\ InRange(data, i + 1)
            THEN /\ reads' = reads \cup {i, i + 1}
                 /\ cmps' = Append(cmps, i)
                 /\ pc' = "body"
            ELSE /\ reads' = reads \cup {i, i + 1}
                 /\ cmps' = cmps
                 /\ pc' = "panic"
       ELSE /\ reads' = reads
            /\ cmps' = cmps
            /\ pc' = "ret"
    /\ data' = data
    /\ UNCHANGED <<n, i, result, inputs, results, conc, suite>>

\* sort.go:10  for i < n-1 && data[i] <= data[i+1]
\* && evaluates its right operand only when the left one is true; an index
\* outside 0..len(data)-1 is a run-time panic
LoopCond ==
    /\ pc = "loop"
    /\ IF LoopBound(i, n)
       THEN IF InRange(data, i) /\ InRange(data, i + 1)
            THEN /\ reads' = reads \cup {i, i + 1}
                 /\ cmps' = Append(cmps, i)
                 /\ pc' = IF Leq(At(data, i), At(data, i + 1)) THEN "body" ELSE "ret"
            ELSE /\ reads' = reads \cup {i, i + 1}
                 /\ cmps' = cmps
                 /\ pc' = "panic"
       ELSE /\ reads' = reads
            /\ cmps' = cmps
            /\ pc' = "ret"
    /\ data' = data
    /\ UNCHANGED <<n, i, result, inputs, results, conc, suite>>

\* a loop body that does not advance
LoopBodyStuck ==
    /\ pc = "body"
    /\ i' = i
    /\ data' = data
    /\ pc' = "loop"
    /\ UNCHANGED <<n, result, reads, inputs, results, cmps, conc, suite>>

\* a loop body that steps over a pair
LoopBodySkip ==
    /\ pc = "body"
    /\ i' = i + 2
    /\ data' = data
    /\ pc' = "loop"
    /\ UNCHANGED <<n, result, reads, inputs, results, cmps, conc, suite>>

\* a loop body that also stores the running value into the next slot
LoopBodyWrite ==
    /\ pc = "body"
    /\ i' = i + 1
    /\ data' = [data EXCEPT !.elems[i + 2] = At(data, i)]
    /\ pc' = "loop"
    /\ UNCHANGED <<n, result, reads, inputs, results, cmps, conc, suite>>

\* sort.go:11  i = i + 1
LoopBody ==
    /\ pc = "body"
    /\ i' = i + 1
    /\ data' = data
    /\ pc' = "loop"
    /\ UNCHANGED <<n, result, reads, inputs, results, cmps, conc, suite>>

\* sort.go:13  return i == n-1
Return ==
    /\ pc = "ret"
    /\ result' = ReturnValue(i, n)
    /\ results' = Append(results, ReturnValue(i, n))
    /\ pc' = "done"
    /\ UNCHANGED <<data, n, i, reads, inputs, cmps, conc, suite>>

(* ---------------------------- concurrent calls ------------------------- *)

\* element values of the slices handed to the concurrent calls
ConcValues == {MinInt, 0, MaxInt}

\* the slices handed to the concurrent calls
RECURSIVE ConcSeqsUpTo(_)
ConcSeqsUpTo(k) ==
    IF k = 0 THEN {<< >>}
    ELSE LET shorter == ConcSeqsUpTo(k - 1)
         IN  shorter \cup {Append(s, v) : s \in {t \in shorter : Len(t) = k - 1}, v \in ConcValues}

ConcSlices ==
    {[isNil |-> TRUE, elems |-> << >>]}
        \cup {[isNil |-> FALSE, elems |-> s] : s \in ConcSeqsUpTo(ConcMaxLen)}

\* the state private to the running call and its caller: the argument and
\* the locals of IsSorted, and what its caller has seen of its calls
Frame ==
    [data |-> data, pc |-> pc, n |-> n, i |-> i, result |-> result,
     reads |-> reads, inputs |-> inputs, results |-> results, cmps |-> cmps]

\* the frame of a call site that has not called yet
IdleFrame(d) ==
    [data |-> d, pc |-> "idle", n |-> 0, i |-> 0, result |-> "none",
     reads |-> {}, inputs |-> << >>, results |-> << >>, cmps |-> << >>]

\* an index i kept in a package-level variable: a resumed call sees the
\* value the other call left
SharedI(savedI, currentI) == currentI

\* sort.go:9  i := 0 declares i local to the call: a resumed call sees its own
ResumedI(savedI, currentI) == savedI

\* the scheduler suspends the running call and resumes the other one
Switch ==
    /\ conc.pc # "none"
    /\ conc' = Frame
    /\ data' = conc.data
    /\ pc' = conc.pc
    /\ n' = conc.n
    /\ i' = ResumedI(conc.i, i)
    /\ result' = conc.result
    /\ reads' = conc.reads
    /\ inputs' = conc.inputs
    /\ results' = conc.results
    /\ cmps' = conc.cmps
    /\ UNCHANGED suite

InitConc ==
    /\ data \in ConcSlices
    /\ pc = "idle"
    /\ n = 0
    /\ i = 0
    /\ result = "none"
    /\ reads = {}
    /\ inputs = << >>
    /\ results = << >>
    /\ cmps = << >>
    /\ conc \in {IdleFrame(d) : d \in ConcSlices}
    /\ suite = NoSuite

NextConc ==
    \/ Enter
    \/ ReadLen
    \/ Guard
    \/ LoopCond
    \/ LoopBody
    \/ Return
    \/ Switch

SpecConc == InitConc /\ [][NextConc]_vars

(* ---------------------------- the testify suite ------------------------ *)

\* testify_suite_test.go:25,65  the test methods of ExampleTestSuite
SuiteMethods == {"TestExample", "TestExampleLogLinesLost"}

\* the methods the runner runs, in the order it runs them: any selection
\* (go test -run) in any order
MethodOrders ==
    {<< >>}
        \cup {<<m>> : m \in SuiteMethods}
        \cup {<<o[1], o[2]>> : o \in {p \in SuiteMethods \X SuiteMethods : p[1] # p[2]}}

\* testify_suite_test.go:44-59, 87-102  the cases both test methods validate
SuiteCases ==
    << [name |-> "Empty", array |-> [isNil |-> FALSE, elems |-> << >>], expected |-> TRUE],
       [name |-> "Single element", array |-> [isNil |-> FALSE, elems |-> <<0>>], expected |-> TRUE],
       [name |-> "Two elements", array |-> [isNil |-> FALSE, elems |-> <<0, 1>>], expected |-> FALSE],
       [name |-> "Two elements unsorted", array |-> [isNil |-> FALSE, elems |-> <<1, 0>>], expected |-> TRUE] >>

\* testify_suite_test.go:41, 83  require.Equal(t, tc.Expected, actual)
RequireEqual(expected, actual) == expected = actual

\* a SetupTest that sets nothing
SetupTestNoop(st) == st

\* testify_suite_test.go:19-21  SetupTest
SetupTest(st) == [st EXCEPT !.v = 5]

\* testify_suite_test.go:107-109  suite.Run(t, new(ExampleTestSuite)): the
\* fields of the new suite hold their zero values
NewSuite(order) ==
    [pc |-> "new", v |-> 0, todo |-> order, method |-> "none", next |-> 0, log |-> << >>]

\* the runner calls SetupTest before the next test method
RunSetupTest ==
    /\ suite.pc = "new"
    /\ suite.todo # << >>
    /\ suite' = [SetupTest(suite) EXCEPT !.pc = "setup",
                                         !.method = Head(suite.todo),
                                         !.todo = Tail(suite.todo)]
    /\ UNCHANGED <<data, pc, n, i, result, reads, inputs, results, cmps, conc>>

\* testify_suite_test.go:27-28, 69-70  the test method starts: both
\* requirements that the variable equals 5; a failed one ends the method
StartMethod ==
    /\ suite.pc = "setup"
    /\ IF RequireEqual(5, suite.v)
       THEN suite' = [suite EXCEPT !.pc = "method", !.next = 1]
       ELSE suite' = [suite EXCEPT !.pc = "new",
                                   !.log = Append(@, [method |-> suite.method, name |-> "VariableThatShouldStartAtFive",
                                                      expected |-> 5, actual |-> suite.v, passed |-> FALSE])]
    /\ UNCHANGED <<data, pc, n, i, result, reads, inputs, results, cmps, conc>>

\* testify_suite_test.go:40, 82  validate runs the next case as a subtest,
\* which calls IsSorted(tc.Array)
CallCase ==
    /\ suite.pc = "method"
    /\ suite.next <= Len(SuiteCases)
    /\ suite' = [suite EXCEPT !.pc = "case"]
    /\ data' = SuiteCases[suite.next].array
    /\ pc' = "entry"
    /\ n' = 0
    /\ i' = 0
    /\ result' = "none"
    /\ reads' = {}
    /\ cmps' = << >>
    /\ inputs' = Append(inputs, SuiteCases[suite.next].array)
    /\ UNCHANGED <<results, conc>>

\* testify_suite_test.go:41, 83  the subtest compares the value returned with
\* tc.Expected; a failed requirement ends the subtest, not the test method
AssertCase ==
    /\ suite.pc = "case"
    /\ pc = "done"
    /\ suite' = [suite EXCEPT !.pc = "method",
                               !.next = @ + 1,
                               !.log = Append(@, [method |-> suite.method,
                                                  name |-> SuiteCases[suite.next].name,
                                                  expected |-> SuiteCases[suite.next].expected,
                                                  actual |-> result,
                                                  passed |-> RequireEqual(SuiteCases[suite.next].expected, result)])]
    /\ pc' = "idle"
    /\ UNCHANGED <<data, n, i, result, reads, inputs, results, cmps, conc>>

\* testify_suite_test.go:61, 103  the test method returns
EndMethod ==
    /\ suite.pc = "method"
    /\ suite.next > Len(SuiteCases)
    /\ suite' = [suite EXCEPT !.pc = "new"]
    /\ UNCHANGED <<data, pc, n, i, result, reads, inputs, results, cmps, conc>>

InitSuite ==
    /\ data = [isNil |-> TRUE, elems |-> << >>]
    /\ pc = "idle"
    /\ n = 0
    /\ i = 0
    /\ result = "none"
    /\ reads = {}
    /\ inputs = << >>
    /\ results = << >>
    /\ cmps = << >>
    /\ conc = NoFrame
    /\ suite \in {NewSuite(order) : order \in MethodOrders}

NextSuite ==
    \/ RunSetupTest
    \/ StartMethod
    \/ CallCase
    \/ ReadLen
    \/ Guard
    \/ LoopCond
    \/ LoopBody
    \/ Return
    \/ AssertCase
    \/ EndMethod

SpecSuite == InitSuite /\ [][NextSuite]_vars

Next ==
    \/ Enter
    \/ ReadLen
    \/ Guard
    \/ LoopCond
    \/ LoopBody
    \/ Return

Spec == Init /\ [][Next]_vars

\* a call that has been entered keeps executing its statements; whether the
\* caller calls again is up to the caller
FairSpec ==
    /\ Spec
    /\ WF_vars(ReadLen)
    /\ WF_vars(Guard)
    /\ WF_vars(LoopCond)
    /\ WF_vars(LoopBody)
    /\ WF_vars(Return)

(* ---------------------------- reference notions ------------------------ *)

\* every adjacent pair of s is non-decreasing
NonDecreasing(s) == \A k \in 1..(Len(s) - 1) : s[k] <= s[k + 1]

\* some adjacent pair of s is strictly decreasing
HasDescent(s) == \E k \in 1..(Len(s) - 1) : s[k] > s[k + 1]

TypeOK ==
    /\ data \in Slices
    /\ pc \in {"idle", "entry", "guard", "loop", "body", "ret", "done", "panic"}
    /\ n \in 0..(MaxLen + 1)
    /\ i \in 0..(MaxLen + 1)
    /\ reads \subseteq 0..(MaxLen + 1)
    /\ Len(inputs) <= MaxCalls + 1
    /\ Len(results) <= Len(inputs)

(* ---------------------------- claims ----------------------------------- *)

\* C1: for every finite sequence of integers, a completed call of IsSorted
\* returned true if and only if the sequence has zero or one elements or
\* every adjacent pair satisfies data[i] <= data[i+1]; otherwise it returned
\* false.
C1_SortedIffNonDecreasing ==
    pc = "done" =>
        result = (GoLen(data) = 0 \/ GoLen(data) = 1 \/ NonDecreasing(data.elems))

\* a call has returned true on a three-element sequence that rises and then
\* repeats a value
C1_Witness ==
    /\ pc = "done"
    /\ data.elems = <<MinInt, 0, 0>>
    /\ result = TRUE

\* C2: IsSorted returns true for the empty sequence, both when it is passed
\* as a nil slice and when it is passed as an empty non-nil slice.
C2_EmptyIsSorted ==
    (pc = "done" /\ GoLen(data) = 0) => (result = TRUE /\ results[Len(results)] = TRUE)

\* a call on the nil slice has returned
C2_WitnessNil == pc = "done" /\ data.isNil /\ data.elems = << >> /\ Len(results) = 1

\* a call on the empty non-nil slice has returned
C2_WitnessEmpty == pc = "done" /\ ~data.isNil /\ data.elems = << >> /\ Len(results) = 1

\* C3: IsSorted returns true for every single-element sequence, whatever the
\* value of the element.
C3_SingleIsSorted ==
    (pc = "done" /\ GoLen(data) = 1) => result = TRUE

\* a call on the single-element sequence holding the least integer has returned
C3_Witness == pc = "done" /\ data.elems = <<MinInt>> /\ result = TRUE

\* C4: for every sequence that contains at least one adjacent pair with
\* data[i] > data[i+1], at any position, IsSorted returns false, regardless
\* of the elements that precede or follow that pair.
C4_DescentIsNotSorted ==
    (pc = "done" /\ HasDescent(data.elems)) => result = FALSE

\* a call has returned on a three-element sequence whose first pair descends
\* and whose second pair ascends
C4_Witness ==
    /\ pc = "done"
    /\ GoLen(data) = 3
    /\ At(data, 0) > At(data, 1)
    /\ At(data, 1) < At(data, 2)
    /\ result = FALSE

\* C5: equal adjacent elements count as sorted: IsSorted returns true for
\* every sequence in which every adjacent pair is non-decreasing, including
\* sequences with duplicate values and sequences whose elements are all
\* equal, such as [0, 0].
C5_NonDecreasingIsSorted ==
    (pc = "done" /\ NonDecreasing(data.elems)) => result = TRUE

\* a call on [0, 0] has returned
C5_Witness == pc = "done" /\ data.elems = <<0, 0>> /\ result = TRUE

\* C6: for every two-element sequence [a, b], IsSorted returns exactly
\* (a <= b): [0, 1] gives true and [1, 0] gives false.
C6_TwoElements ==
    (pc = "done" /\ GoLen(data) = 2) =>
        /\ result = (At(data, 0) <= At(data, 1))
        /\ data.elems = <<0, 1>> => result = TRUE
        /\ data.elems = <<1, 0>> => result = FALSE

\* a call on [0, 1] has returned
C6_WitnessAscending == pc = "done" /\ data.elems = <<0, 1>> /\ result = TRUE

\* a call on [1, 0] has returned
C6_WitnessDescending == pc = "done" /\ data.elems = <<1, 0>> /\ result = FALSE

\* C7: IsSorted is total: for every sequence of any length, 0 and 1
\* included, no index it reads lies outside 0..len(data)-1, it never
\* panics, and what it returns is a boolean.
C7_TotalNoOutOfRange ==
    /\ pc # "panic"
    /\ \A k \in reads : InRange(data, k)
    /\ pc = "done" => result \in BOOLEAN

\* a call on a sorted sequence of the greatest length has read its last
\* element and returned
C7_Witness ==
    /\ pc = "done"
    /\ GoLen(data) = MaxLen
    /\ (MaxLen - 1) \in reads
    /\ result = TRUE

\* C8: IsSorted never mutates its input: in every state reached during a
\* call and after it returns, the sequence has the same length and the same
\* element at every position as before the call.
C8_InputUnchanged ==
    pc # "idle" =>
        /\ data.isNil = inputs[Len(inputs)].isNil
        /\ GoLen(data) = GoLen(inputs[Len(inputs)])
        /\ \A k \in 0..(GoLen(data) - 1) : At(data, k) = At(inputs[Len(inputs)], k)

\* the loop body has run at least once on a sequence that is not constant
C8_Witness ==
    /\ pc = "loop"
    /\ i >= 1
    /\ At(data, 0) < At(data, 1)

\* C9: invoking IsSorted twice in succession on the same sequence yields the
\* same result both times and leaves the sequence unchanged; the result
\* depends only on the contents and order of the sequence, not on any
\* earlier call.
C9_SecondCallAgrees ==
    Len(results) >= 2 =>
        /\ \A j, k \in DOMAIN results : results[j] = results[k]
        /\ \A j \in DOMAIN inputs : inputs[j] = inputs[1]
        /\ data = inputs[1]

\* the second call on an unsorted sequence has returned
C9_Witness ==
    /\ pc = "done"
    /\ Len(results) = 2
    /\ HasDescent(data.elems)
    /\ results[2] = FALSE

\* C10: IsSorted is correct when the least representable integer appears
\* anywhere in the sequence: a pair (x, MinInt) with x > MinInt yields
\* false, as [0, MinInt] does, and the result is the one the mathematical
\* order of the elements gives, unchanged by any overflow or wrap-around.
C10_MinIntHandled ==
    (pc = "done" /\ \E k \in 0..(GoLen(data) - 1) : At(data, k) = MinInt) =>
        /\ result = NonDecreasing(data.elems)
        /\ (\E k \in 0..(GoLen(data) - 2) :
               At(data, k) > MinInt /\ At(data, k + 1) = MinInt) => result = FALSE
        /\ data.elems = <<0, MinInt>> => result = FALSE

\* a call on [0, MinInt] has returned
C10_Witness == pc = "done" /\ data.elems = <<0, MinInt>> /\ result = FALSE

\* what a call site has seen agrees with running each of its calls alone,
\* and its slice is the one it passed
AsAlone(f) ==
    /\ \A j \in DOMAIN f.results : f.results[j] = IsSorted(f.inputs[j])
    /\ \A j \in DOMAIN f.inputs : f.inputs[j] = f.data
    /\ f.pc = "done" => f.result = IsSorted(f.data)

\* C11: any interleaving of concurrent IsSorted calls made on independent
\* input sequences gives each call the same result as running it alone, and
\* none of them writes to any sequence.
C11_InterleavingAsAlone ==
    conc.pc # "none" => (AsAlone(Frame) /\ AsAlone(conc))

\* both calls have returned, one true and one false, each after the other
\* one had started
C11_Witness ==
    /\ pc = "done"
    /\ conc.pc = "done"
    /\ result = TRUE
    /\ conc.result = FALSE
    /\ GoLen(data) = 2
    /\ Len(results) = 1
    /\ Len(conc.results) = 1

\* a is the Go slice b[:k] for some k
IsPrefix(a, b) == Len(a) <= Len(b) /\ SubSeq(b, 1, Len(a)) = a

\* C12: prefix truncation is one-directional: every prefix of a sequence for
\* which IsSorted returns true also returns true (a sequence for which it
\* returns false may have a prefix for which it returns true: C12_Witness).
C12_PrefixOfSortedIsSorted ==
    /\ (conc.pc = "done" /\ pc = "done" /\ IsPrefix(conc.data.elems, data.elems)
           /\ result = TRUE) => conc.result = TRUE
    /\ (conc.pc = "done" /\ pc = "done" /\ IsPrefix(data.elems, conc.data.elems)
           /\ conc.result = TRUE) => result = TRUE

\* IsSorted has returned false for a three-element sequence and true for its
\* two-element prefix
C12_Witness ==
    /\ pc = "done"
    /\ conc.pc = "done"
    /\ GoLen(data) = 3
    /\ GoLen(conc.data) = 2
    /\ IsPrefix(conc.data.elems, data.elems)
    /\ result = FALSE
    /\ conc.result = TRUE

\* IsSorted has returned true for a three-element sequence and for its
\* two-element prefix
C12_WitnessSorted ==
    /\ pc = "done"
    /\ conc.pc = "done"
    /\ GoLen(data) = 3
    /\ GoLen(conc.data) = 2
    /\ IsPrefix(conc.data.elems, data.elems)
    /\ result = TRUE
    /\ conc.result = TRUE

\* the log entries of the subtests named name
LogOf(name) == {k \in DOMAIN suite.log : suite.log[k].name = name}

InTestMethod == suite.pc \in {"setup", "method", "case"}

\* C17: in the testify suite SetupTest runs before each test method, so at
\* the start of every test method of ExampleTestSuite, in any order, and
\* throughout it, VariableThatShouldStartAtFive equals 5, and no step of a
\* test method changes it.
C17_StartsAtFive ==
    /\ [](InTestMethod => suite.v = 5)
    /\ [][InTestMethod => suite'.v = suite.v]_vars

\* the second test method of a run starts, after TestExample has run all its
\* cases
C17_Witness ==
    /\ suite.pc = "setup"
    /\ suite.method = "TestExampleLogLinesLost"
    /\ Len(suite.log) = Len(SuiteCases)
    /\ suite.v = 5

\* the pair at Go indices (k, k+1) of the slice descends
Descends(k) == At(data, k) > At(data, k + 1)

\* C15: the scan short-circuits: once IsSorted has compared the first
\* adjacent pair with data[i] > data[i+1], that comparison is its last one,
\* it reads no element at an index greater than i+1, and it goes on to
\* return false.
C15_ShortCircuit ==
    \A j \in DOMAIN cmps :
        Descends(cmps[j]) =>
            /\ j = Len(cmps)
            /\ \A k \in 0..(cmps[j] - 1) : ~Descends(k)
            /\ \A k \in reads : k <= cmps[j] + 1
            /\ pc \in {"ret", "done"}
            /\ pc = "done" => result = FALSE

\* a call on a three-element sequence whose first pair descends has returned
\* false without reading the third element
C15_Witness ==
    /\ pc = "done"
    /\ GoLen(data) = 3
    /\ Descends(0)
    /\ cmps = <<0>>
    /\ reads = {0, 1}
    /\ result = FALSE

\* a step of the scan leaves i alone or, in the loop body, adds exactly 1
IndexStep ==
    pc \in {"loop", "body", "ret"} => (i' = i \/ (pc = "body" /\ i' = i + 1))

\* C16: IsSorted always terminates: for a sequence of length n the loop
\* index i only increases, by exactly 1 per iteration, and the call returns
\* after at most n-1 loop iterations and at most n-1 comparisons, each
\* adjacent pair being compared at most once and in increasing index order.
C16_Terminates ==
    /\ [](cmps # << >> => Len(cmps) <= n - 1)
    /\ [](\A j \in DOMAIN cmps : cmps[j] = j - 1)
    /\ [](pc \in {"loop", "body", "ret"} => (0 <= i /\ i <= n - 1))
    /\ [][IndexStep]_vars
    /\ (pc = "entry" ~> pc = "done")

\* a call on a sorted sequence of the greatest length has returned after
\* comparing every adjacent pair
C16_Witness ==
    /\ pc = "done"
    /\ n = MaxLen
    /\ Len(cmps) = n - 1
    /\ i = n - 1

\* C18: loop invariant of IsSorted for sequences of length n >= 2: at every
\* evaluation of the loop condition, 0 <= i <= n-1 and every adjacent pair
\* at positions below i is non-decreasing.
C18_LoopInvariant ==
    pc = "loop" =>
        /\ n >= 2
        /\ n = GoLen(data)
        /\ 0 <= i
        /\ i <= n - 1
        /\ \A k \in 0..(i - 1) : At(data, k) <= At(data, k + 1)

\* the loop condition is about to be evaluated for the third time
C18_Witness == pc = "loop" /\ i = 2 /\ n = 3 /\ Len(cmps) = 2

\* C19: when IsSorted returns false, the final value of the loop index i is
\* the position of the first descending pair: i < n-1, data[i] > data[i+1],
\* and data[k] <= data[k+1] for all k < i; when it returns true on a
\* sequence of length n >= 2, the final value of i is exactly n-1.
C19_FinalIndex ==
    pc = "done" =>
        /\ result = FALSE =>
               /\ n >= 2
               /\ i < n - 1
               /\ At(data, i) > At(data, i + 1)
               /\ \A k \in 0..(i - 1) : At(data, k) <= At(data, k + 1)
        /\ (result = TRUE /\ n >= 2) => i = n - 1

\* a call has returned false with the loop index at the second pair
C19_Witness ==
    /\ pc = "done"
    /\ result = FALSE
    /\ i = 1
    /\ n = 3

\* C20: whenever IsSorted(data) returns true, the sequence is ordered
\* between every pair of positions, not only adjacent ones: data[a] <=
\* data[b] for all 0 <= a < b < len(data), so the first element is a minimum
\* and the last a maximum.
C20_SortedIsTotallyOrdered ==
    (pc = "done" /\ result = TRUE) =>
        /\ \A a, b \in 0..(GoLen(data) - 1) : a < b => At(data, a) <= At(data, b)
        /\ \A k \in 0..(GoLen(data) - 1) :
               At(data, 0) <= At(data, k) /\ At(data, k) <= At(data, GoLen(data) - 1)

\* a call on a strictly increasing three-element sequence has returned true
C20_Witness ==
    /\ pc = "done"
    /\ result = TRUE
    /\ data.elems = <<MinInt, 0, MaxInt>>

\* b is a followed by one more element
IsAppend(a, b) == Len(b) = Len(a) + 1 /\ SubSeq(b, 1, Len(a)) = a

\* what the append law gives for s followed by x, from the result for s
AppendLaw(resultOfS, s, x) == resultOfS /\ (Len(s) = 0 \/ s[Len(s)] <= x)

\* C21: appending one element composes with the check: for every sequence s
\* and integer x, IsSorted(s followed by x) equals IsSorted(s) and (s is
\* empty or last(s) <= x).
C21_AppendComposes ==
    (pc = "done" /\ conc.pc = "done") =>
        /\ IsAppend(conc.data.elems, data.elems) =>
               result = AppendLaw(conc.result, conc.data.elems, data.elems[Len(data.elems)])
        /\ IsAppend(data.elems, conc.data.elems) =>
               conc.result = AppendLaw(result, data.elems, conc.data.elems[Len(conc.data.elems)])

\* IsSorted has returned true for a two-element sequence and false for that
\* sequence followed by a smaller element
C21_Witness ==
    /\ pc = "done"
    /\ conc.pc = "done"
    /\ GoLen(conc.data) = 2
    /\ IsAppend(conc.data.elems, data.elems)
    /\ conc.result = TRUE
    /\ At(data, 1) > At(data, 2)
    /\ result = FALSE

\* C22: the early return for short inputs agrees with the scan for every
\* non-empty sequence: for every sequence of length >= 1, the loop and the
\* final test i == n-1 alone, without the n == 0 || n == 1 guard, give the
\* result IsSorted gives.
C22_GuardAgreesWithScan ==
    (pc = "done" /\ GoLen(data) >= 1) => result = ScanOnly(data)

\* the second call on a single-element sequence has returned through the
\* guard
C22_Witness ==
    /\ pc = "done"
    /\ data.elems = <<MaxInt>>
    /\ cmps = << >>
    /\ Len(results) = 2
    /\ result = TRUE

\* C23: the n == 0 branch of the guard is necessary: for the empty sequence
\* the loop and the final test i == n-1 alone (i = 0, n-1 = -1) yield false,
\* and IsSorted returns true on empty input through the early return.
C23_EmptyNeedsGuard ==
    (pc = "done" /\ GoLen(data) = 0) =>
        /\ Scan(data, 0, GoLen(data)) = 0
        /\ ScanOnly(data) = FALSE
        /\ result = TRUE
        /\ cmps = << >>

\* the second call on the nil slice has returned
C23_Witness ==
    /\ pc = "done"
    /\ data.isNil
    /\ GoLen(data) = 0
    /\ Len(results) = 2
    /\ result = TRUE

====
